---- MODULE Spec2Model ----
(***************************************************************************)
(* Model of the CEX listings updater (update-listings script):             *)
(* normalizeSymbol, detectNewListings, cleanOldListings, updateListings    *)
(* and the entry point, over the three persisted JSON documents.           *)
(*                                                                         *)
(* Time is counted in ticks, DayTicks ticks to a day.  Date arithmetic is  *)
(* the one of a zone without daylight-saving shifts (UTC), so setDate(     *)
(* getDate() - n) moves a Date back by exactly n days.  A symbol is the    *)
(* sequence of its characters.  The log file written by writeLog is not    *)
(* state of the model: nothing reads it back.                              *)
(***************************************************************************)
EXTENDS Integers, Sequences, FiniteSets, TLC

\* ------------------------------------------------------------------ bounds

\* ticks per day
DayTicks == 2
\* runs of the script in one behaviour of SpecRuns
MaxRuns == 2
\* ticks that may pass while one run of Spec awaits its fetches
MaxElapse == 1
\* length of the symbol lists handed to detectNewListings on its own
MaxSymbols == 2
\* length of the listing lists handed to cleanOldListings on its own
MaxListings == 2

\* ------------------------------------------------------- program constants

RETENTION_DAYS == 30

\* a Date that holds no time value (new Date of a string that is no date)
NaN == -1
\* JSON null in a timestamp field
Null == -2

\* the six exchanges, in the order updateListings handles them
Keys == <<"binance", "coinbase", "bybit", "upbit", "okx", "kraken">>
Names == <<"Binance", "Coinbase", "Bybit", "Upbit", "OKX", "Kraken">>
NumExchanges == Len(Keys)
\* where a run stands while the fetch of an exchange is awaited
Awaits == <<"awaitBinance", "awaitCoinbase", "awaitBybit", "awaitUpbit", "awaitOKX",
            "awaitKraken">>
KeySet == {Keys[i] : i \in 1..NumExchanges}

FILES == {"cexListings", "newListings", "status"}

\* ---------------------------------------------------------------- symbols

Separators == {"-", "_", "/"}

\* String.prototype.toUpperCase on one character of the alphabet in use
UpperChar(c) ==
  CASE c = "b" -> "B"
    [] c = "e" -> "E"
    [] c = "u" -> "U"
    [] OTHER -> c

\* symbol.replace(/[-_\/]/g, '')
removeSeparators(symbol) == SelectSeq(symbol, LAMBDA c : c \notin Separators)

toUpperCase(s) == [i \in 1..Len(s) |-> UpperChar(s[i])]

\* a normalizeSymbol that keeps the case of the letters
normalizeSymbolKeepCase(symbol) == removeSeparators(symbol)

normalizeSymbol(symbol) == toUpperCase(removeSeparators(symbol))

\* the normalized forms of the symbols of a list
NormalizedSet(symbols) == {normalizeSymbol(symbols[n]) : n \in 1..Len(symbols)}

BU == <<"B", "U">>
B_U == <<"B", "-", "U">>
b_u == <<"b", "_", "u">>
EU == <<"E", "U">>
E_U == <<"E", "/", "U">>
RawSymbols == {BU, B_U, b_u, EU, E_U}

\* ------------------------------------------------------------------ dates

\* new Date(isoString): the time value, or NaN for a string that is no date
parseDate(s) == IF s >= 0 THEN s ELSE NaN

\* date.toISOString()
toISOString(t) == t

\* a >= b on two Dates: false as soon as one of them is NaN
DateGE(a, b) == a # NaN /\ b # NaN /\ a >= b

\* ------------------------------------------------- detectNewListings

\* the for loop of detectNewListings from index k on, newListings so far
RECURSIVE detectLoop(_, _, _, _, _, _)
detectLoop(oldNormalized, newSymbols, exchangeName, now, k, newListings) ==
  IF k > Len(newSymbols) THEN newListings
  ELSE LET symbol == newSymbols[k]
           normalized == normalizeSymbol(symbol)
       IN detectLoop(oldNormalized, newSymbols, exchangeName, now, k + 1,
            IF normalized \notin oldNormalized
            THEN Append(newListings,
                   [exchange |-> exchangeName, symbol |-> symbol,
                    detectedAt |-> toISOString(now)])
            ELSE newListings)

\* a detectNewListings that emits the normalized symbol
detectNewListingsNormalized(oldSymbols, newSymbols, exchangeName, now) ==
  LET d == detectLoop({normalizeSymbol(oldSymbols[i]) : i \in 1..Len(oldSymbols)},
                      newSymbols, exchangeName, now, 1, <<>>)
  IN [i \in 1..Len(d) |-> [d[i] EXCEPT !.symbol = normalizeSymbol(d[i].symbol)]]

\* a detectNewListings whose old set holds the raw symbols
detectNewListingsRawOld(oldSymbols, newSymbols, exchangeName, now) ==
  detectLoop({oldSymbols[i] : i \in 1..Len(oldSymbols)},
             newSymbols, exchangeName, now, 1, <<>>)

detectNewListings(oldSymbols, newSymbols, exchangeName, now) ==
  LET oldNormalized == {normalizeSymbol(oldSymbols[i]) : i \in 1..Len(oldSymbols)}
  IN detectLoop(oldNormalized, newSymbols, exchangeName, now, 1, <<>>)

\* --------------------------------------------------- cleanOldListings

\* a cutoff one day too early
cutoffDateEarly(now) == now - (RETENTION_DAYS + 1) * DayTicks

\* cutoffDate: now moved back by RETENTION_DAYS days
cutoffDate(now) == now - RETENTION_DAYS * DayTicks

\* a cleanOldListings with an exclusive cutoff
cleanOldListingsExclusive(listings, now) ==
  SelectSeq(listings,
    LAMBDA listing : parseDate(listing.detectedAt) # NaN
                     /\ parseDate(listing.detectedAt) > cutoffDate(now))

cleanOldListings(listings, now) ==
  SelectSeq(listings,
    LAMBDA listing : DateGE(parseDate(listing.detectedAt), cutoffDate(now)))

\* ---------------------------------------------------------------- state

Procs == {1, 2}

VARIABLES
  clock,            \* what new Date() returns, in ticks
  files,            \* the three persisted documents, by FILES key
  scenario,         \* what the environment of this behaviour allows
  runs,             \* runs started so far
  pc,               \* where each run of the script stands
  startTime,        \* updateListings: startTime
  errors,           \* updateListings: errors
  oldListings,      \* updateListings: oldListings
  newListingsData,  \* updateListings: newListingsData
  results,          \* updateListings: results
  allNewListings,   \* updateListings: allNewListings
  caught,           \* the error the outer catch holds or rethrows, NoError when none
  exitCode,         \* the code handed to process.exit, Null before it
  hist,             \* per run: what it found and did, for the properties
  call,             \* a call of detectNewListings or cleanOldListings on its own
  ledger            \* across runs: what was written to the listing log, for the properties

vars == <<scenario, clock, files, runs, pc, startTime, errors, oldListings, newListingsData,
          results, allNewListings, caught, exitCode, hist, call, ledger>>

runVars == <<scenario, clock, files, runs, pc, startTime, errors, oldListings,
             newListingsData, results, allNewListings, caught, exitCode, hist, ledger>>

\* ------------------------------------------------------------ documents

NoSymbols == [k \in KeySet |-> <<>>]

\* a document readJSON throws on (missing file, or text JSON.parse rejects)
Unreadable(filePath) ==
  CASE filePath = "cexListings" ->
         [readable |-> FALSE, lastUpdated |-> Null, exchanges |-> NoSymbols]
    [] filePath = "newListings" ->
         [readable |-> FALSE, lastChecked |-> Null, listings |-> <<>>]
    [] filePath = "status" ->
         [readable |-> FALSE, lastRun |-> Null, lastSuccessfulRun |-> Null,
          status |-> "never_run", errors |-> <<>>]

ExchangeListings(lastUpdated, exchanges) ==
  [readable |-> TRUE, lastUpdated |-> lastUpdated, exchanges |-> exchanges]

NewListingsData(lastChecked, listings) ==
  [readable |-> TRUE, lastChecked |-> lastChecked, listings |-> listings]

StatusData(lastRun, lastSuccessfulRun, status, errs) ==
  [readable |-> TRUE, lastRun |-> lastRun, lastSuccessfulRun |-> lastSuccessfulRun,
   status |-> status, errors |-> errs]

NewListing(exchange, symbol, detectedAt) ==
  [exchange |-> exchange, symbol |-> symbol, detectedAt |-> detectedAt]

\* readJSON(filePath) throws
readJSONThrows(filePath) == ~files[filePath].readable

\* readJSON(filePath), when it does not throw
readJSON(filePath) == files[filePath]

\* the error readJSON and writeJSON rethrow
ReadError(filePath) == <<"read", filePath>>
WriteError(filePath) == <<"write", filePath>>
NoError == <<>>

\* -------------------------------------------------- the world of a run

\* the clock before the first run
Epoch == (RETENTION_DAYS + 1) * DayTicks

\* what each exchange's API may answer with
FetchResponses(key) ==
  CASE key = "binance" -> {<<BU>>, <<BU, EU>>}
    [] key = "coinbase" -> {<<B_U, b_u>>}
    [] key = "bybit" -> {<<BU>>}
    [] key = "upbit" -> {<<B_U>>}
    [] key = "okx" -> {<<E_U>>}
    [] key = "kraken" -> {<<EU>>}

\* the error a failed fetch throws
FetchErrors == {<<"fetch">>}

\* the symbols the exchanges listed before the first run of a behaviour
PriorSymbols ==
  [NoSymbols EXCEPT !["bybit"] = <<EU>>, !["upbit"] = <<BU>>, !["kraken"] = <<EU>>]

\* the documents as the repository ships them: nothing has run yet
Fresh ==
  [cexListings |-> ExchangeListings(Null, PriorSymbols),
   newListings |-> NewListingsData(Null, <<>>),
   status |-> StatusData(Null, Null, "never_run", <<>>)]

\* the listing log after earlier runs: entries older than the retention
\* window, at its edge, inside it, and one whose detectedAt is no date
AgedListings ==
  <<NewListing("Kraken", EU, Epoch - (RETENTION_DAYS + 1) * DayTicks),
    NewListing("Bybit", EU, Epoch - RETENTION_DAYS * DayTicks),
    NewListing("Kraken", EU, NaN),
    NewListing("Upbit", BU, Epoch - 1)>>

\* the documents after earlier runs, the last one at Epoch - 1
Aged(status) ==
  [cexListings |-> ExchangeListings(Epoch - 1, PriorSymbols),
   newListings |-> NewListingsData(Epoch - 1, AgedListings),
   status |-> status]

PriorStatus ==
  {StatusData(Epoch - 1, Epoch - 1, "success", <<>>),
   StatusData(Epoch - 1, Epoch - DayTicks - 1, "partial_success",
              <<<<"OKX", <<"fetch">>>>>>)}

PriorDocuments == {Fresh} \cup {Aged(status) : status \in PriorStatus}

\* docs with the files of the set lost made unreadable
Damaged(docs, lost) ==
  [f \in FILES |-> IF f \in lost THEN Unreadable(f) ELSE docs[f]]

\* the time between two runs of the scheduler
Intervals == {1, RETENTION_DAYS * DayTicks}

\* what is remembered of the run before this one: nothing before the first
NoPrev ==
  [ran |-> FALSE,
   fetched |-> [k \in KeySet |-> "none"],
   returned |-> NoSymbols,
   wrote |-> <<>>,
   events |-> <<>>]

NoHist ==
  [prev |-> NoPrev,
   before |-> [f \in FILES |-> Unreadable(f)],
   fetched |-> [k \in KeySet |-> "none"],
   returned |-> NoSymbols,
   calls |-> <<>>,
   pending |-> {},
   elapsed |-> 0,
   wrote |-> <<>>,
   cleanedAt |-> Null,
   fatal |-> "",
   settled |-> ""]

\* written: the events the runs wrote to the listing log; lastWrite: the time
\* of the last write of the log; logged: the exchange and normalized symbol of
\* the written events whose symbol every later fetch of the exchange returned;
\* repeated: those of them that the last write of the log logged once more
NoLedger == [written |-> {}, lastWrite |-> Null, logged |-> {}, repeated |-> {}]

\* no run has started; the documents are docs
RunInit(docs) ==
  /\ clock = Epoch - 1
  /\ files = docs
  /\ runs = 0
  /\ pc = [p \in Procs |-> "idle"]
  /\ startTime = [p \in Procs |-> Null]
  /\ errors = [p \in Procs |-> <<>>]
  /\ oldListings = [p \in Procs |-> Unreadable("cexListings")]
  /\ newListingsData = [p \in Procs |-> Unreadable("newListings")]
  /\ results = [p \in Procs |-> NoSymbols]
  /\ allNewListings = [p \in Procs |-> <<>>]
  /\ caught = [p \in Procs |-> NoError]
  /\ exitCode = [p \in Procs |-> Null]
  /\ hist = [p \in Procs |-> NoHist]
  /\ ledger = NoLedger

\* op: the function called; old, new, exchange, now, arg: what it was called
\* with; listings: the array passed to cleanOldListings as the call left it;
\* out: what the call returned
NoCall == [op |-> "none", old |-> <<>>, new |-> <<>>, exchange |-> "", now |-> 0,
           arg |-> <<>>, listings |-> <<>>, out |-> <<>>]

\* one run of the script, every fetch free to fail
Init ==
  /\ scenario = [runLimit |-> 1, flaky |-> KeySet, elapse |-> MaxElapse, hang |-> {},
                 faults |-> FILES, overlap |-> FALSE, intervals |-> Intervals]
  /\ \E docs \in PriorDocuments, lost \in SUBSET FILES :
       RunInit(Damaged(docs, lost))
  /\ call = NoCall

\* ------------------------------------------------------- updateListings

Others(p) == Procs \ {p}

\* fs.writeFileSync of writeJSON succeeds: the document is replaced whole
writeJSON(filePath, data) == files' = [files EXCEPT ![filePath] = data]

Wrote(p, filePath) == [hist EXCEPT ![p].wrote = Append(@, filePath)]

\* what the run that is ending in slot p leaves to remember
Finished(p) ==
  [ran |-> pc[p] = "exited",
   fetched |-> hist[p].fetched,
   returned |-> hist[p].returned,
   wrote |-> hist[p].wrote,
   events |-> allNewListings[p]]

\* the scheduler starts the script only while no other run of it is active,
\* unless the environment lets runs overlap
MayStart(p) ==
  scenario.overlap \/ \A q \in Others(p) : pc[q] \in {"idle", "exited"}

\* the script is started: startTime and errors are set (lines 324-325) and the
\* try block is entered
Start(p) ==
  /\ pc[p] \in {"idle", "exited"}
  /\ MayStart(p)
  /\ runs < scenario.runLimit
  /\ \E d \in scenario.intervals :
       /\ clock' = clock + d
       /\ startTime' = [startTime EXCEPT ![p] = toISOString(clock + d)]
  /\ runs' = runs + 1
  /\ errors' = [errors EXCEPT ![p] = <<>>]
  /\ oldListings' = [oldListings EXCEPT ![p] = Unreadable("cexListings")]
  /\ newListingsData' = [newListingsData EXCEPT ![p] = Unreadable("newListings")]
  /\ results' = [results EXCEPT ![p] = NoSymbols]
  /\ allNewListings' = [allNewListings EXCEPT ![p] = <<>>]
  /\ caught' = [caught EXCEPT ![p] = NoError]
  /\ exitCode' = [exitCode EXCEPT ![p] = Null]
  /\ hist' = [hist EXCEPT ![p] = [NoHist EXCEPT !.before = files,
                                                !.prev = Finished(p)]]
  /\ pc' = [pc EXCEPT ![p] = "load"]
  /\ UNCHANGED <<scenario, files, call, ledger>>

\* an error thrown inside the outer try block: control goes to its catch
Throw(p, error, cause) ==
  /\ caught' = [caught EXCEPT ![p] = error]
  /\ hist' = [hist EXCEPT ![p].fatal = cause, ![p].before = IF pc[p] = "load" THEN files ELSE @]
  /\ pc' = [pc EXCEPT ![p] = "catch"]

\* lines 333-338: load previous data
Load(p) ==
  /\ pc[p] = "load"
  /\ IF readJSONThrows("cexListings")
     THEN /\ Throw(p, ReadError("cexListings"), "read cexListings")
          /\ UNCHANGED <<oldListings, newListingsData>>
     ELSE IF readJSONThrows("newListings")
     THEN /\ Throw(p, ReadError("newListings"), "read newListings")
          /\ oldListings' = [oldListings EXCEPT ![p] = readJSON("cexListings")]
          /\ UNCHANGED newListingsData
     ELSE /\ oldListings' = [oldListings EXCEPT ![p] = readJSON("cexListings")]
          /\ newListingsData' = [newListingsData EXCEPT ![p] = readJSON("newListings")]
          /\ pc' = [pc EXCEPT ![p] = Keys[1]]
          /\ hist' = [hist EXCEPT ![p].before = files]
          /\ UNCHANGED caught
  /\ UNCHANGED <<scenario, clock, files, runs, startTime, errors, results, allNewListings,
                 exitCode, call, ledger>>

\* a catch clause that records the error and leaves results unset
KeepOldDataUnset(p, i, error) ==
  /\ errors' = [errors EXCEPT ![p] = Append(@, <<Names[i], error>>)]
  /\ UNCHANGED <<results, allNewListings>>

\* a catch clause that keeps the old data and records nothing
KeepOldDataSilent(p, i, error) ==
  /\ results' = [results EXCEPT ![p][Keys[i]] = oldListings[p].exchanges[Keys[i]]]
  /\ UNCHANGED <<errors, allNewListings>>

\* the catch clause of one exchange's block: the error is recorded under the
\* exchange's name and the old data is kept
KeepOldData(p, i, error) ==
  /\ errors' = [errors EXCEPT ![p] = Append(@, <<Names[i], error>>)]
  /\ results' = [results EXCEPT ![p][Keys[i]] = oldListings[p].exchanges[Keys[i]]]
  /\ UNCHANGED allNewListings

\* the symbols of every exchange of the loaded snapshot, one list after another
AllOldSymbols(p) ==
  oldListings[p].exchanges[Keys[1]] \o oldListings[p].exchanges[Keys[2]]
    \o oldListings[p].exchanges[Keys[3]] \o oldListings[p].exchanges[Keys[4]]
    \o oldListings[p].exchanges[Keys[5]] \o oldListings[p].exchanges[Keys[6]]

\* a try clause that detects against the snapshot of all the exchanges
TakeNewDataAnyExchange(p, i, symbols, now) ==
  /\ results' = [results EXCEPT ![p][Keys[i]] = symbols]
  /\ allNewListings' =
       [allNewListings EXCEPT ![p] =
          @ \o detectNewListings(AllOldSymbols(p), symbols, Names[i], now)]
  /\ UNCHANGED errors

\* the try clause of one exchange's block once its fetch returned symbols
TakeNewData(p, i, symbols, now) ==
  /\ results' = [results EXCEPT ![p][Keys[i]] = symbols]
  /\ allNewListings' =
       [allNewListings EXCEPT ![p] =
          @ \o detectNewListings(oldListings[p].exchanges[Keys[i]], symbols,
                                 Names[i], now)]
  /\ UNCHANGED errors

\* a successor of block i that leaves out the following exchange
AfterBlockSkipping(i) == IF i + 1 < NumExchanges THEN Keys[i + 2] ELSE "writeCex"

\* where control goes after the block of exchange i
AfterBlock(i) == IF i < NumExchanges THEN Keys[i + 1] ELSE "writeCex"

\* the exchange and the normalized symbol of each event of a sequence
EventKeys(events) ==
  {<<events[n].exchange, normalizeSymbol(events[n].symbol)>> : n \in 1..Len(events)}

\* the members of logged that stay once exchange i has returned symbols
StillListed(logged, i, symbols) ==
  {key \in logged : key[1] = Names[i] => key[2] \in NormalizedSet(symbols)}

\* the block of exchange i is entered: its fetch function is called and the
\* run is suspended on the await
FetchCall(p, i) ==
  /\ pc[p] = Keys[i]
  /\ pc' = [pc EXCEPT ![p] = Awaits[i]]
  /\ hist' = [hist EXCEPT ![p].calls = Append(@, Keys[i]),
                          ![p].pending = @ \cup {Keys[i]}]
  /\ UNCHANGED <<scenario, clock, files, runs, startTime, errors, oldListings,
                 newListingsData, results, allNewListings, caught, exitCode, call, ledger>>

\* the awaited fetch of exchange i settles, time having passed meanwhile: it
\* returns a list or throws, and the rest of the block runs
FetchReturn(p, i) ==
  /\ pc[p] = Awaits[i]
  /\ Keys[i] \notin scenario.hang
  /\ \E d \in 0..(scenario.elapse - hist[p].elapsed) :
       /\ clock' = clock + d
       /\ \/ \E symbols \in FetchResponses(Keys[i]) :
               /\ TakeNewData(p, i, symbols, clock + d)
               /\ hist' = [hist EXCEPT ![p].fetched[Keys[i]] = "ok",
                                       ![p].returned[Keys[i]] = symbols,
                                       ![p].pending = @ \ {Keys[i]},
                                       ![p].elapsed = @ + d]
               /\ ledger' = [ledger EXCEPT !.logged = StillListed(@, i, symbols)]
          \/ \E error \in FetchErrors :
               /\ Keys[i] \in scenario.flaky
               /\ KeepOldData(p, i, error)
               /\ hist' = [hist EXCEPT ![p].fetched[Keys[i]] = "fail",
                                       ![p].pending = @ \ {Keys[i]},
                                       ![p].elapsed = @ + d]
               /\ UNCHANGED ledger
  /\ pc' = [pc EXCEPT ![p] = AfterBlock(i)]
  /\ UNCHANGED <<scenario, files, runs, startTime, oldListings, newListingsData, caught,
                 exitCode, call>>

\* the block of exchange i
ExchangeBlock(p, i) == FetchCall(p, i) \/ FetchReturn(p, i)

Binance(p) == ExchangeBlock(p, 1)
Coinbase(p) == ExchangeBlock(p, 2)
Bybit(p) == ExchangeBlock(p, 3)
Upbit(p) == ExchangeBlock(p, 4)
OKX(p) == ExchangeBlock(p, 5)
Kraken(p) == ExchangeBlock(p, 6)

\* a sequence of writes that goes from the snapshot straight to the status
AfterWriteSkippingLog(filePath) ==
  IF filePath = "status" THEN "resolved" ELSE "writeStatus"

\* where control goes after the write of a document: the snapshot (line 454),
\* then the listing log (line 464), then the status (line 473)
AfterWrite(filePath) ==
  IF filePath = "cexListings" THEN "writeNew"
  ELSE IF filePath = "newListings" THEN "writeStatus" ELSE "resolved"

\* an updatedListings that holds the exchanges as they were loaded
UpdatedListingsStale(p, now) ==
  ExchangeListings(toISOString(now), oldListings[p].exchanges)

\* lines 443-453: updatedListings
UpdatedListings(p, now) == ExchangeListings(toISOString(now), results[p])

\* lines 442-454: update cex-listings.json
WriteCex(p) ==
  /\ pc[p] = "writeCex"
  /\ LET updatedListings == UpdatedListings(p, clock)
     IN \/ /\ writeJSON("cexListings", updatedListings)
           /\ hist' = Wrote(p, "cexListings")
           /\ pc' = [pc EXCEPT ![p] = AfterWrite("cexListings")]
           /\ UNCHANGED caught
        \/ /\ "cexListings" \in scenario.faults
           /\ Throw(p, WriteError("cexListings"), "write cexListings")
           /\ UNCHANGED files
  /\ UNCHANGED <<scenario, clock, runs, startTime, errors, oldListings, newListingsData,
                 results, allNewListings, exitCode, call, ledger>>

\* the ledger once run p has written the listing log at time now
Logged(p, now) ==
  LET kept == cleanOldListings(newListingsData[p].listings, now)
  IN [written |-> ledger.written \cup {allNewListings[p][n] : n \in 1..Len(allNewListings[p])},
      lastWrite |-> now,
      logged |-> ledger.logged \cup EventKeys(allNewListings[p]),
      repeated |-> ledger.logged \cap EventKeys(allNewListings[p]) \cap EventKeys(kept)]

\* a combinedListings that holds the events of this run only
CombinedListingsOnlyNew(p) == allNewListings[p]

\* a combinedListings with the events of this run first
CombinedListingsNewFirst(p) == allNewListings[p] \o newListingsData[p].listings

\* line 458: combinedListings
CombinedListings(p) == newListingsData[p].listings \o allNewListings[p]

\* lines 456-464: update new-listings.json
WriteNew(p) ==
  /\ pc[p] = "writeNew"
  /\ LET combinedListings == CombinedListings(p)
         cleanedListings == cleanOldListings(combinedListings, clock)
         updatedNewListings == NewListingsData(toISOString(clock), cleanedListings)
     IN \/ /\ writeJSON("newListings", updatedNewListings)
           /\ hist' = [Wrote(p, "newListings") EXCEPT ![p].cleanedAt = clock]
           /\ ledger' = Logged(p, clock)
           /\ pc' = [pc EXCEPT ![p] = AfterWrite("newListings")]
           /\ UNCHANGED caught
        \/ /\ "newListings" \in scenario.faults
           /\ Throw(p, WriteError("newListings"), "write newListings")
           /\ UNCHANGED <<files, ledger>>
  /\ UNCHANGED <<scenario, clock, runs, startTime, errors, oldListings, newListingsData,
                 results, allNewListings, exitCode, call>>

\* line 470
StatusOfOffByOne(errs) ==
  IF Len(errs) = 0 THEN "success"
  ELSE IF Len(errs) <= 6 THEN "partial_success" ELSE "failed"

\* a status that falls back to the initial value when no fetch succeeded
StatusOfNeverRun(errs) ==
  IF Len(errs) = 0 THEN "success"
  ELSE IF Len(errs) < 6 THEN "partial_success" ELSE "never_run"

StatusOf(errs) ==
  IF Len(errs) = 0 THEN "success"
  ELSE IF Len(errs) < 6 THEN "partial_success" ELSE "failed"

\* line 469
LastSuccessfulRunAlways(errs, start, persisted) == start

\* a lastSuccessfulRun that is dropped when the run has errors
LastSuccessfulRunReset(errs, start, persisted) ==
  IF Len(errs) = 0 THEN start ELSE Null

LastSuccessfulRun(errs, start, persisted) ==
  IF Len(errs) = 0 THEN start ELSE persisted.lastSuccessfulRun

\* lines 466-480: update status.json; the promise of updateListings resolves
WriteStatus(p) ==
  /\ pc[p] = "writeStatus"
  /\ IF Len(errors[p]) # 0 /\ readJSONThrows("status")
     THEN /\ Throw(p, ReadError("status"), "read status")
          /\ UNCHANGED files
     ELSE LET status == StatusData(startTime[p],
                          LastSuccessfulRun(errors[p], startTime[p], readJSON("status")),
                          StatusOf(errors[p]), errors[p])
          IN \/ /\ writeJSON("status", status)
                /\ hist' = Wrote(p, "status")
                /\ pc' = [pc EXCEPT ![p] = AfterWrite("status")]
                /\ UNCHANGED caught
             \/ /\ "status" \in scenario.faults
                /\ Throw(p, WriteError("status"), "write status")
                /\ UNCHANGED files
  /\ UNCHANGED <<scenario, clock, runs, startTime, errors, oldListings, newListingsData,
                 results, allNewListings, exitCode, call, ledger>>

\* lines 482-494: the outer catch clause; the promise of updateListings rejects
\* with the caught error, or with the error readJSON or writeJSON throws here
Catch(p) ==
  /\ pc[p] = "catch"
  /\ IF readJSONThrows("status")
     THEN /\ caught' = [caught EXCEPT ![p] = ReadError("status")]
          /\ UNCHANGED <<files, hist>>
     ELSE LET status == StatusData(startTime[p], readJSON("status").lastSuccessfulRun,
                                   "failed", <<<<"Critical", caught[p]>>>>)
          IN \/ /\ writeJSON("status", status)
                /\ hist' = Wrote(p, "status")
                /\ UNCHANGED caught
             \/ /\ "status" \in scenario.faults
                /\ caught' = [caught EXCEPT ![p] = WriteError("status")]
                /\ UNCHANGED <<files, hist>>
  /\ pc' = [pc EXCEPT ![p] = "rejected"]
  /\ UNCHANGED <<scenario, clock, runs, startTime, errors, oldListings, newListingsData,
                 results, allNewListings, exitCode, call, ledger>>

\* lines 501-509
ExitCodeZero(state) == 0

ExitCode(state) == IF state = "resolved" THEN 0 ELSE 1

\* the entry point: process.exit in the then or the catch callback
EntryPoint(p) ==
  /\ pc[p] \in {"resolved", "rejected"}
  /\ exitCode' = [exitCode EXCEPT ![p] = ExitCode(pc[p])]
  /\ hist' = [hist EXCEPT ![p].settled = pc[p]]
  /\ pc' = [pc EXCEPT ![p] = "exited"]
  /\ UNCHANGED <<scenario, clock, files, runs, startTime, errors, oldListings,
                 newListingsData, results, allNewListings, caught, call, ledger>>

updateListings(p) ==
  \/ Start(p)
  \/ Load(p)
  \/ Binance(p)
  \/ Coinbase(p)
  \/ Bybit(p)
  \/ Upbit(p)
  \/ OKX(p)
  \/ Kraken(p)
  \/ WriteCex(p)
  \/ WriteNew(p)
  \/ WriteStatus(p)
  \/ Catch(p)
  \/ EntryPoint(p)

\* the scheduler starts the script as one process at a time
Scheduled == {1}

Next == \E p \in Scheduled : updateListings(p)

Spec == Init /\ [][Next]_vars

\* the exchanges whose fetch may fail in a behaviour of SpecRuns
FlakyInRuns == {"binance", "bybit"}

\* up to MaxRuns runs one after the other, from the documents as shipped
InitRuns ==
  /\ scenario = [runLimit |-> MaxRuns, flaky |-> FlakyInRuns, elapse |-> 0, hang |-> {},
                 faults |-> FILES, overlap |-> FALSE, intervals |-> Intervals]
  /\ RunInit(Fresh)
  /\ call = NoCall

SpecRuns == InitRuns /\ [][Next]_vars

\* the exchange whose fetch may never return
Hung == "coinbase"

\* one run from the documents as shipped: either every read and write succeeds
\* or status.json is unreadable and every write is free to fail; and either
\* every fetch returns or the fetch of the exchange Hung never does
InitLive ==
  /\ \E sound \in BOOLEAN, hang \in {{}, {Hung}} :
       /\ scenario = [runLimit |-> 1, flaky |-> KeySet, elapse |-> 0, hang |-> hang,
                      faults |-> IF sound THEN {} ELSE FILES,
                      overlap |-> FALSE, intervals |-> {1}]
       /\ RunInit(IF sound THEN Fresh ELSE Damaged(Fresh, {"status"}))
  /\ call = NoCall

\* the event loop of node runs every continuation that is ready: a step of
\* the script that can be taken is taken
SpecLive == InitLive /\ [][Next]_vars /\ WF_vars(Next)

\* the script started by two schedulers, or by hand beside the scheduler
NextOverlap == \E p \in Procs : updateListings(p)

\* up to MaxRuns runs from the documents as shipped: either one at a time with
\* every write free to fail, or free to overlap
InitOverlap ==
  /\ \E overlap \in BOOLEAN :
       scenario = [runLimit |-> MaxRuns,
                   flaky |-> IF overlap THEN {"binance"} ELSE FlakyInRuns,
                   elapse |-> 0, hang |-> {},
                   faults |-> IF overlap THEN {} ELSE FILES,
                   overlap |-> overlap,
                   intervals |-> IF overlap THEN {1} ELSE Intervals]
  /\ RunInit(Fresh)
  /\ call = NoCall

SpecOverlap == InitOverlap /\ [][NextOverlap]_vars

\* ------------------------------- the two pure functions called on their own

RECURSIVE SeqsUpTo(_, _)
SeqsUpTo(S, n) ==
  IF n = 0 THEN {<<>>}
  ELSE LET shorter == SeqsUpTo(S, n - 1)
       IN shorter \cup {Append(q, x) : q \in {r \in shorter : Len(r) = n - 1}, x \in S}

NameSet == {Names[i] : i \in 1..NumExchanges}

\* detectedAt values around the cutoff of a call at time now
DatesAround(now) ==
  {now - (RETENTION_DAYS + 1) * DayTicks,
   now - RETENTION_DAYS * DayTicks - 1,
   now - RETENTION_DAYS * DayTicks,
   now - RETENTION_DAYS * DayTicks + 1,
   now - (RETENTION_DAYS - 1) * DayTicks,
   now,
   now + 1,
   NaN}

CallDetect ==
  /\ call.op = "none"
  /\ \E oldSymbols \in SeqsUpTo(RawSymbols, MaxSymbols),
        newSymbols \in SeqsUpTo(RawSymbols, MaxSymbols),
        exchangeName \in NameSet :
       call' = [NoCall EXCEPT
                  !.op = "detectNewListings",
                  !.old = oldSymbols,
                  !.new = newSymbols,
                  !.exchange = exchangeName,
                  !.now = Epoch,
                  !.out = detectNewListings(oldSymbols, newSymbols, exchangeName, Epoch)]
  /\ UNCHANGED runVars

CallClean ==
  /\ call.op = "none"
  /\ \E now \in {Epoch, Epoch + 1} :
       \E listings \in SeqsUpTo({NewListing("Binance", symbol, detectedAt) :
                                   symbol \in {BU, E_U},
                                   detectedAt \in DatesAround(Epoch)}, MaxListings) :
         call' = [NoCall EXCEPT
                    !.op = "cleanOldListings",
                    !.now = now,
                    !.arg = listings,
                    !.listings = listings,
                    !.out = cleanOldListings(listings, now)]
  /\ UNCHANGED runVars

NextCalls == CallDetect \/ CallClean

\* no run of the script: one call of one of the two functions
InitCalls ==
  /\ scenario = [runLimit |-> 0, flaky |-> {}, elapse |-> 0, hang |-> {},
                 faults |-> {}, overlap |-> FALSE, intervals |-> Intervals]
  /\ RunInit(Fresh)
  /\ call = NoCall

SpecCalls == InitCalls /\ [][NextCalls]_vars

\* ------------------------------------------------------------ properties

WroteFile(p, filePath) ==
  \E n \in 1..Len(hist[p].wrote) : hist[p].wrote[n] = filePath

\* the promise of updateListings has resolved
Completed(p) ==
  pc[p] = "resolved" \/ (pc[p] = "exited" /\ hist[p].settled = "resolved")

\* the promise of updateListings has rejected
Raised(p) ==
  pc[p] = "rejected" \/ (pc[p] = "exited" /\ hist[p].settled = "rejected")

\* the exchanges, by position, whose fetch failed in run p
Failed(p) == {i \in 1..NumExchanges : hist[p].fetched[Keys[i]] = "fail"}

\* the number of members of the set of positions I that are at most i
Rank(I, i) == Cardinality({j \in I : j <= i})

\* C1: a run that loaded the prior state and wrote all three documents has
\* written status success when no fetch failed, partial_success when one to
\* five failed, failed when all six failed.
C1_StatusByFailedFetches ==
  \A p \in Procs :
    Completed(p) =>
      LET n == Cardinality(Failed(p))
          written == files["status"].status
      IN /\ hist[p].wrote = <<"cexListings", "newListings", "status">>
         /\ (written = "success") = (n = 0)
         /\ (written = "partial_success") = (n >= 1 /\ n <= 5)
         /\ (written = "failed") = (n = NumExchanges)

C1_Witness ==
  \E p \in Procs :
    /\ Completed(p)
    /\ Cardinality(Failed(p)) = NumExchanges
    /\ files["status"].status = "failed"

\* C2: a run that writes the status document writes its own start time as
\* lastSuccessfulRun exactly when it recorded no error, and otherwise (errors
\* of exchanges, or a fatal failure) the lastSuccessfulRun of the status
\* document persisted before the run.
C2_LastSuccessfulRun ==
  \A p \in Procs :
    WroteFile(p, "status") =>
      LET written == files["status"].lastSuccessfulRun
          clean == Len(errors[p]) = 0 /\ hist[p].fatal = ""
      IN /\ clean => written = startTime[p]
         /\ ~clean => written = hist[p].before["status"].lastSuccessfulRun
         /\ (written = startTime[p]) = clean

C2_Witness ==
  \E p \in Procs :
    /\ WroteFile(p, "status")
    /\ Len(errors[p]) = 2
    /\ hist[p].fatal = ""
    /\ files["status"].lastSuccessfulRun = Epoch - DayTicks - 1
    /\ files["status"].lastRun = startTime[p]

\* C3: in a run that writes the snapshot document, each exchange's entry is
\* the list its fetch returned if the fetch succeeded and the entry of the
\* snapshot persisted before the run if it failed, whatever the other
\* fetches did.
C3_SnapshotEntries ==
  \A p \in Procs :
    WroteFile(p, "cexListings") =>
      \A k \in KeySet :
        /\ hist[p].fetched[k] # "none"
        /\ hist[p].fetched[k] = "ok" =>
             files["cexListings"].exchanges[k] = hist[p].returned[k]
        /\ hist[p].fetched[k] = "fail" =>
             files["cexListings"].exchanges[k] =
               hist[p].before["cexListings"].exchanges[k]

C3_Witness ==
  \E p \in Procs :
    /\ WroteFile(p, "cexListings")
    /\ Cardinality(Failed(p)) = 2
    /\ hist[p].fetched["bybit"] = "fail"
    /\ files["cexListings"].exchanges["bybit"] = <<EU>>
    /\ files["cexListings"].exchanges["binance"] = <<BU, EU>>

\* C4: a failed fetch never aborts the run: once the prior state is loaded all
\* six exchanges are attempted, and the errors of the written status hold one
\* entry per failed fetch, under the exchange's name, in the order Binance,
\* Coinbase, Bybit, Upbit, OKX, Kraken, and none for a fetch that succeeded.
C4_OneErrorPerFailedFetch ==
  \A p \in Procs :
    /\ (pc[p] \in {"catch", "rejected", "exited", "resolved"}
        /\ hist[p].fatal \notin {"read cexListings", "read newListings"})
         => \A k \in KeySet : hist[p].fetched[k] # "none"
    /\ Completed(p) =>
         LET errs == files["status"].errors
         IN /\ Len(errs) = Cardinality(Failed(p))
            /\ \A i \in Failed(p) : errs[Rank(Failed(p), i)][1] = Names[i]

C4_Witness ==
  \E p \in Procs :
    /\ Completed(p)
    /\ Failed(p) = {1, 4, 6}
    /\ files["status"].errors =
         <<<<"Binance", <<"fetch">>>>, <<"Upbit", <<"fetch">>>>,
           <<"Kraken", <<"fetch">>>>>>

\* C5: a failure in loading the prior snapshot or listing log, or in writing
\* the snapshot or listing-log document, ends the run with a status document
\* written that says failed, holds one error and carries lastSuccessfulRun
\* forward, with the snapshot and listing-log documents as they were before
\* the run, and with the failure raised to the caller.
C5_FatalLeavesSnapshotAndLog ==
  \A p \in Procs :
    (pc[p] \in {"rejected", "exited"}
     /\ hist[p].fatal \in {"read cexListings", "read newListings",
                           "write cexListings", "write newListings"}
     /\ WroteFile(p, "status"))
      => /\ files["status"].status = "failed"
         /\ Len(files["status"].errors) = 1
         /\ files["status"].lastSuccessfulRun =
              hist[p].before["status"].lastSuccessfulRun
         /\ files["cexListings"] = hist[p].before["cexListings"]
         /\ files["newListings"] = hist[p].before["newListings"]
         /\ Raised(p)

\* C6: when the snapshot, the listing log or the status document is unreadable
\* at the moment the run reads it, the run ends as fatal with a status
\* document that says failed written by it (unless the write of the status
\* document itself fails).
C6_UnreadableWritesFailedStatus ==
  \A p \in Procs :
    (pc[p] \in {"rejected", "exited"}
     /\ hist[p].fatal \in {"read cexListings", "read newListings", "read status"}
     /\ caught[p] # WriteError("status"))
      => /\ Raised(p)
         /\ WroteFile(p, "status")
         /\ files["status"].readable
         /\ files["status"].status = "failed"

\* C7: the process exits with code 0 whenever updateListings completes,
\* whatever the fetches did, all six failing included, and with a code other
\* than 0 exactly when updateListings ends by raising a fatal failure.
C7_ExitCode ==
  \A p \in Procs :
    pc[p] = "exited" =>
      /\ (exitCode[p] = 0) = (hist[p].fatal = "")
      /\ (exitCode[p] # 0) = (hist[p].fatal # "")
      /\ hist[p].fatal = "" =>
           hist[p].wrote = <<"cexListings", "newListings", "status">>

C7_Witness ==
  \E p \in Procs :
    /\ pc[p] = "exited"
    /\ exitCode[p] = 0
    /\ Cardinality(Failed(p)) = NumExchanges
    /\ files["status"].status = "failed"

\* C8: detectNewListings(old, new, x) returns, in the order of new, one event
\* for each element of new whose normalized form is the normalized form of
\* no element of old, with the raw symbol of new and the exchange x, and
\* nothing else.
C8_DetectReturnsNewInOrder ==
  call.op = "detectNewListings" =>
    LET old == call.old
        new == call.new
        out == call.out
        IsNew(i) == \A j \in 1..Len(old) :
                       normalizeSymbol(new[i]) # normalizeSymbol(old[j])
        I == {i \in 1..Len(new) : IsNew(i)}
    IN /\ Len(out) = Cardinality(I)
       /\ \A i \in I : /\ out[Rank(I, i)].symbol = new[i]
                       /\ out[Rank(I, i)].exchange = call.exchange

C8_Witness ==
  /\ call.op = "detectNewListings"
  /\ call.old = <<B_U>>
  /\ call.new = <<b_u, E_U>>
  /\ call.exchange = "Coinbase"
  /\ call.out = <<NewListing("Coinbase", E_U, Epoch)>>

\* C9: cleanOldListings at time now returns, in their order, the events whose
\* detectedAt is at or after now minus 30 days, the one exactly at the cutoff
\* included, and no other, and leaves its argument as it was.
C9_CleanKeepsWindow ==
  call.op = "cleanOldListings" =>
    LET arg == call.arg
        out == call.out
        Kept(i) == /\ arg[i].detectedAt # NaN
                   /\ arg[i].detectedAt >= call.now - RETENTION_DAYS * DayTicks
        I == {i \in 1..Len(arg) : Kept(i)}
    IN /\ Len(out) = Cardinality(I)
       /\ \A i \in I : out[Rank(I, i)] = arg[i]
       /\ call.listings = arg

C9_Witness ==
  /\ call.op = "cleanOldListings"
  /\ call.now = Epoch
  /\ Len(call.arg) = 2
  /\ call.arg[1].detectedAt = Epoch - RETENTION_DAYS * DayTicks - 1
  /\ call.arg[2].detectedAt = Epoch - RETENTION_DAYS * DayTicks
  /\ call.out = <<call.arg[2]>>

\* C10: once a run has written the listing-log document, every entry of the
\* persisted log has a detectedAt that is a date, at most 30 days before the
\* start of that run, whatever the log held before the run.
C10_LogWithinRetention ==
  \A p \in Procs :
    WroteFile(p, "newListings") =>
      \A n \in 1..Len(files["newListings"].listings) :
        LET detectedAt == files["newListings"].listings[n].detectedAt
        IN /\ detectedAt # NaN
           /\ startTime[p] - detectedAt <= RETENTION_DAYS * DayTicks

C10_Witness ==
  \E p \in Procs :
    /\ WroteFile(p, "newListings")
    /\ Len(hist[p].before["newListings"].listings) = 4
    /\ Len(files["newListings"].listings) >= 2
    /\ startTime[p] - files["newListings"].listings[1].detectedAt
         = RETENTION_DAYS * DayTicks

\* the events of the sequence events that are for exchange i
EventsFor(events, i) == SelectSeq(events, LAMBDA e : e.exchange = Names[i])


\* the run before the one in slot p fetched exchange i and wrote the snapshot
PrevTook(p, i) ==
  /\ hist[p].prev.ran
  /\ hist[p].prev.fetched[Keys[i]] = "ok"
  /\ \E n \in 1..Len(hist[p].prev.wrote) : hist[p].prev.wrote[n] = "cexListings"

\* C11: when a run fetched exchange X and wrote the snapshot, the next run
\* emits no event for X for a symbol that was in the list the earlier run
\* fetched; so no event at all when X returns the same list again, and a
\* symbol that stays listed is reported in at most one of the two runs.
C11_NoRepeatAcrossRuns ==
  \A p \in Procs : \A i \in 1..NumExchanges :
    (PrevTook(p, i) /\ hist[p].fetched[Keys[i]] = "ok") =>
      LET events == EventsFor(allNewListings[p], i)
      IN /\ \A n \in 1..Len(events) :
              normalizeSymbol(events[n].symbol)
                \notin NormalizedSet(hist[p].prev.returned[Keys[i]])
         /\ hist[p].returned[Keys[i]] = hist[p].prev.returned[Keys[i]]
              => events = <<>>

C11_Witness ==
  \E p \in Procs :
    /\ PrevTook(p, 1)
    /\ hist[p].prev.returned["binance"] = <<BU>>
    /\ EventsFor(hist[p].prev.events, 1) = <<NewListing("Binance", BU, Epoch)>>
    /\ hist[p].fetched["binance"] = "ok"
    /\ hist[p].returned["binance"] = <<BU, EU>>
    /\ EventsFor(allNewListings[p], 1) = <<NewListing("Binance", EU, Epoch + 1)>>
    /\ PrevTook(p, 2)
    /\ hist[p].fetched["coinbase"] = "ok"
    /\ EventsFor(allNewListings[p], 2) = <<>>

\* the lower-case and upper-case forms of the letters of the alphabet in use
CasePairs == {<<"b", "B">>, <<"e", "E">>, <<"u", "U">>}

\* c and d are one letter, in the same or in different case
SameLetter(c, d) == c = d \/ <<c, d>> \in CasePairs \/ <<d, c>> \in CasePairs

\* the symbols a and b differ at most in hyphens, underscores, slashes and in
\* the case of their letters
SameButSeparatorsAndCase(a, b) ==
  LET x == SelectSeq(a, LAMBDA c : c # "-" /\ c # "_" /\ c # "/")
      y == SelectSeq(b, LAMBDA c : c # "-" /\ c # "_" /\ c # "/")
  IN Len(x) = Len(y) /\ \A n \in 1..Len(x) : SameLetter(x[n], y[n])

\* C12: detectNewListings(old, old, x) is empty, and detectNewListings(old,
\* new, x) is empty whenever every element of new differs from some element
\* of old only in separators or letter case.
C12_NoSelfDiff ==
  call.op = "detectNewListings" =>
    /\ call.new = call.old => call.out = <<>>
    /\ (\A i \in 1..Len(call.new) : \E j \in 1..Len(call.old) :
          SameButSeparatorsAndCase(call.new[i], call.old[j]))
         => call.out = <<>>

C12_Witness ==
  /\ call.op = "detectNewListings"
  /\ call.old = <<B_U, EU>>
  /\ call.new = <<E_U, b_u>>
  /\ call.out = <<>>

\* C13: a status document written by a run, on the normal or on the fatal
\* path, has status success, partial_success or failed, never never_run.
C13_WrittenStatusValues ==
  \A p \in Procs :
    WroteFile(p, "status") =>
      /\ files["status"].readable
      /\ files["status"].status \in {"success", "partial_success", "failed"}
      /\ files["status"].status # "never_run"

C13_Witness ==
  \E p \in Procs :
    /\ hist[p].before["status"].readable
    /\ hist[p].before["status"].status = "never_run"
    /\ hist[p].fatal = "write newListings"
    /\ WroteFile(p, "status")
    /\ files["status"].status = "failed"

\* the event e is inside the retention window at time now
InsideWindow(e, now) ==
  e.detectedAt # NaN /\ now - e.detectedAt <= RETENTION_DAYS * DayTicks

\* C14: the listing log a run writes is the log persisted before the run,
\* without the entries that are not inside the retention window at the time
\* of the write, followed by the events of this run: the prior entries inside
\* the window are kept as they were and in their order, they all precede the
\* events of the run, and nothing else is dropped.
C14_LogIsPrunedConcatenation ==
  \A p \in Procs :
    WroteFile(p, "newListings") =>
      LET prior == hist[p].before["newListings"].listings
          events == allNewListings[p]
          log == files["newListings"].listings
          I == {i \in 1..Len(prior) : InsideWindow(prior[i], hist[p].cleanedAt)}
      IN /\ Len(log) = Cardinality(I) + Len(events)
         /\ \A i \in I : log[Rank(I, i)] = prior[i]
         /\ \A j \in 1..Len(events) : log[Cardinality(I) + j] = events[j]

C14_Witness ==
  \E p \in Procs :
    /\ WroteFile(p, "newListings")
    /\ hist[p].before["newListings"].listings = AgedListings
    /\ hist[p].cleanedAt = Epoch
    /\ allNewListings[p] # <<>>
    /\ files["newListings"].listings =
         <<AgedListings[2], AgedListings[4]>> \o allNewListings[p]

\* the exchange and the symbol of each event of a sequence
Pairs(events) == [n \in 1..Len(events) |-> <<events[n].exchange, events[n].symbol>>]

\* what the exchanges 1..i are to contribute to the events of run p: for each
\* one whose fetch returned, the listings that are new against its own entry of
\* the snapshot persisted before the run
RECURSIVE ExpectedEvents(_, _)
ExpectedEvents(p, i) ==
  IF i = 0 THEN <<>>
  ELSE ExpectedEvents(p, i - 1) \o
       (IF hist[p].fetched[Keys[i]] = "ok"
        THEN detectNewListings(hist[p].before["cexListings"].exchanges[Keys[i]],
                               hist[p].returned[Keys[i]], Names[i], Null)
        ELSE <<>>)

\* C15: the events of a run are, exchange after exchange in the fixed order,
\* what detectNewListings gives for the exchange's own prior snapshot entry
\* and its fetched list; an exchange whose fetch failed contributes none; and
\* these events are the ones the run appends to the listing log.
C15_EventsPerExchange ==
  \A p \in Procs :
    /\ Pairs(allNewListings[p]) = Pairs(ExpectedEvents(p, NumExchanges))
    /\ \A n \in 1..Len(allNewListings[p]) :
         /\ allNewListings[p][n].detectedAt >= startTime[p]
         /\ allNewListings[p][n].detectedAt <= clock
    /\ WroteFile(p, "newListings") =>
         LET log == files["newListings"].listings
             added == Len(allNewListings[p])
         IN /\ Len(log) >= added
            /\ SubSeq(log, Len(log) - added + 1, Len(log)) = allNewListings[p]

C15_Witness ==
  \E p \in Procs :
    /\ WroteFile(p, "newListings")
    /\ hist[p].before["cexListings"].readable
    /\ hist[p].before["cexListings"].exchanges = PriorSymbols
    /\ hist[p].fetched["binance"] = "fail"
    /\ hist[p].fetched["bybit"] = "fail"
    /\ hist[p].fetched["okx"] = "ok"
    /\ Pairs(allNewListings[p]) =
         <<<<"Coinbase", B_U>>, <<"Coinbase", b_u>>, <<"OKX", E_U>>>>

\* the fetches of run p so far were called in the fixed order, each exchange
\* at most once, and each one only after the one before it had settled
OneAtATimeInOrder(p) ==
  LET calls == hist[p].calls
  IN /\ Len(calls) <= NumExchanges
     /\ \A n \in 1..Len(calls) : calls[n] = Keys[n]
     /\ \A n \in 1..(Len(calls) - 1) : hist[p].fetched[calls[n]] # "none"
     /\ Cardinality(hist[p].pending) <= 1
     /\ \A k \in hist[p].pending :
          k = calls[Len(calls)] /\ hist[p].fetched[k] = "none"

\* every fetch of run p has been called and has settled
AllFetched(p) ==
  /\ hist[p].calls = Keys
  /\ hist[p].pending = {}
  /\ \A k \in KeySet : hist[p].fetched[k] # "none"

\* run p read the snapshot and the listing log
Loaded(p) == hist[p].fatal \notin {"read cexListings", "read newListings"}

\* C16: within one run each of the six exchanges is fetched exactly once, the
\* fetches do not overlap and come in the order Binance, Coinbase, Bybit,
\* Upbit, OKX, Kraken, and no document is written before the sixth fetch has
\* returned.
C16_FetchedOnceInOrder ==
  \A p \in Procs :
    /\ OneAtATimeInOrder(p)
    /\ hist[p].wrote # <<>> => AllFetched(p)
    /\ pc[p] = "exited" => AllFetched(p)

\* C16, amended: the above holds of the runs that read the snapshot and the
\* listing log; a run that fails to read one of them fetches nothing and writes
\* at most the status document.
C16_FetchedOnceInOrderWhenLoaded ==
  \A p \in Procs :
    /\ OneAtATimeInOrder(p)
    /\ Loaded(p) =>
         /\ hist[p].wrote # <<>> => AllFetched(p)
         /\ pc[p] = "exited" => AllFetched(p)
    /\ ~Loaded(p) =>
         /\ hist[p].calls = <<>>
         /\ hist[p].wrote \in {<<>>, <<"status">>}

C16_Witness ==
  \E p \in Procs :
    /\ pc[p] = "exited"
    /\ Loaded(p)
    /\ hist[p].calls = Keys
    /\ hist[p].fetched["bybit"] = "fail"
    /\ hist[p].fetched["kraken"] = "ok"
    /\ hist[p].wrote = <<"cexListings", "newListings", "status">>

\* the persisted listing log holds an event of exchange i for the raw symbol
\* symbol, detected at or after the time since
LogHas(i, symbol, since) ==
  \E n \in 1..Len(files["newListings"].listings) :
    LET e == files["newListings"].listings[n]
    IN e.exchange = Names[i] /\ e.symbol = symbol /\ e.detectedAt # NaN
       /\ e.detectedAt >= since

\* run p is the first run in which the fetch of exchange i returns after the
\* run before it had that fetch fail
FirstSuccessAfterFailure(p, i) ==
  /\ hist[p].prev.ran
  /\ hist[p].prev.fetched[Keys[i]] = "fail"
  /\ hist[p].fetched[Keys[i]] = "ok"

\* the symbols exchange i returned in run p that the snapshot entry persisted
\* before the run does not hold
AppearedMeanwhile(p, i) ==
  {n \in 1..Len(hist[p].returned[Keys[i]]) :
     normalizeSymbol(hist[p].returned[Keys[i]][n])
       \notin NormalizedSet(hist[p].before["cexListings"].exchanges[Keys[i]])}

\* C17: a symbol that appeared on an exchange while its fetches failed is, in
\* the first later run whose fetch of that exchange returns it, emitted as a
\* listing event and written to the listing log. Stated of the runs that have
\* ended and persisted their snapshot.
C17_ListingSurvivesFailedFetch ==
  \A p \in Procs : \A i \in 1..NumExchanges :
    (pc[p] = "exited" /\ FirstSuccessAfterFailure(p, i) /\ WroteFile(p, "cexListings")) =>
      \A n \in AppearedMeanwhile(p, i) :
        /\ \E m \in 1..Len(allNewListings[p]) :
             /\ allNewListings[p][m].exchange = Names[i]
             /\ allNewListings[p][m].symbol = hist[p].returned[Keys[i]][n]
        /\ LogHas(i, hist[p].returned[Keys[i]][n], startTime[p])

\* the persisted listing log lacks an event that a run wrote to it and that
\* was inside the retention window when the log was last written
LostEvent ==
  \E e \in ledger.written :
    /\ InsideWindow(e, ledger.lastWrite)
    /\ \A n \in 1..Len(files["newListings"].listings) :
         files["newListings"].listings[n] # e

\* the persisted listing log holds twice a listing that was logged by one run
\* and logged again by another, the exchange having returned the symbol at
\* every fetch in between
SameListingTwice ==
  \E key \in ledger.repeated :
    \E m, n \in 1..Len(files["newListings"].listings) :
      /\ m < n
      /\ EventKeys(<<files["newListings"].listings[m]>>) = {key}
      /\ EventKeys(<<files["newListings"].listings[n]>>) = {key}

Sound == scenario.faults = {} /\ \A f \in FILES : files[f].readable

\* the run in slot 1 has ended, having written the snapshot, then the listing
\* log, then the status
TerminatedInOrder ==
  /\ pc[1] = "exited"
  /\ exitCode[1] = 0
  /\ hist[1].wrote = <<"cexListings", "newListings", "status">>

\* the run in slot 1 awaits the fetch that never returns and has written no
\* document
Blocked ==
  /\ \E i \in 1..NumExchanges : Keys[i] \in scenario.hang /\ pc[1] = Awaits[i]
  /\ hist[1].wrote = <<>>
  /\ files = hist[1].before

\* C19: when every fetch returns, with a list or an error, and every read and
\* write succeeds, a run that has started ends, having written the snapshot,
\* then the listing log, then the status; when a fetch never returns, the run
\* reaches that fetch and stays there forever with no document written.
C19_TerminatesOrBlocks ==
  /\ (pc[1] = "load" /\ Sound /\ scenario.hang = {}) ~> TerminatedInOrder
  /\ (pc[1] = "load" /\ Sound /\ scenario.hang # {}) ~> []Blocked

C19_Witness ==
  /\ Sound
  /\ scenario.hang = {}
  /\ TerminatedInOrder
  /\ hist[1].fetched["bybit"] = "fail"
  /\ hist[1].fetched["kraken"] = "ok"

\* the normalized symbols that the persisted snapshot entry of exchange i
\* holds and that the entry persisted before run p lacked
Gained(p, i) ==
  NormalizedSet(files["cexListings"].exchanges[Keys[i]])
    \ NormalizedSet(hist[p].before["cexListings"].exchanges[Keys[i]])

\* C20: once a run has ended, every normalized symbol that the persisted
\* snapshot entry of an exchange gained in it has a listing event of that run,
\* for that exchange, in the persisted listing log, also when the run aborted
\* on a write failure.
C20_SnapshotAndLogAgree ==
  \A p \in Procs : \A i \in 1..NumExchanges :
    (pc[p] = "exited" /\ WroteFile(p, "cexListings")) =>
      \A symbol \in Gained(p, i) :
        \E n \in 1..Len(files["newListings"].listings) :
          LET e == files["newListings"].listings[n]
          IN /\ e.exchange = Names[i]
             /\ normalizeSymbol(e.symbol) = symbol
             /\ e.detectedAt # NaN
             /\ e.detectedAt >= startTime[p]

\* C21: within one run no two listing events of the same exchange have the
\* same normalized symbol, also when the fetched list holds a pair more than
\* once or in several raw spellings.
C21_OneEventPerListing ==
  \A p \in Procs :
    \A m, n \in 1..Len(allNewListings[p]) :
      (m < n /\ allNewListings[p][m].exchange = allNewListings[p][n].exchange) =>
        normalizeSymbol(allNewListings[p][m].symbol)
          # normalizeSymbol(allNewListings[p][n].symbol)

\* the status document has a lastSuccessfulRun
HasSuccessfulRun(status) == status.lastSuccessfulRun # Null

\* C22: over runs with increasing start times, from a status document whose
\* lastSuccessfulRun is absent or not later than its lastRun, the persisted
\* status has a lastSuccessfulRun that is not later than lastRun, that is not
\* earlier than (and not dropped from) the one persisted before the run, and
\* that equals lastRun exactly when status is success.
C22_StatusTimestamps ==
  LET status == files["status"]
  IN status.readable =>
       /\ HasSuccessfulRun(status) =>
            status.lastRun # Null /\ status.lastSuccessfulRun <= status.lastRun
       /\ status.status = "success" <=>
            (HasSuccessfulRun(status) /\ status.lastSuccessfulRun = status.lastRun)
       /\ \A p \in Procs :
            LET before == hist[p].before["status"]
            IN (pc[p] # "idle" /\ before.readable /\ HasSuccessfulRun(before)) =>
                 /\ HasSuccessfulRun(status)
                 /\ status.lastSuccessfulRun >= before.lastSuccessfulRun

C22_Witness ==
  \E p \in Procs :
    /\ pc[p] = "exited"
    /\ hist[p].prev.ran
    /\ \E n \in 1..Len(hist[p].wrote) : hist[p].wrote[n] = "status"
    /\ hist[p].before["status"].status = "success"
    /\ files["status"].status = "partial_success"
    /\ files["status"].lastRun = startTime[p]
    /\ files["status"].lastSuccessfulRun = hist[p].before["status"].lastRun
    /\ files["status"].lastSuccessfulRun < files["status"].lastRun

====
